---- MODULE Spec2Model ----
(***************************************************************************)
(* A model of the binary search tree of src/c++/bst.hpp: the node heap     *)
(* (owning left/right links, raw parent back-pointers), the tree objects   *)
(* with their root pointer and comparator, and one action per public       *)
(* operation of class bst.                                                 *)
(***************************************************************************)
EXTENDS Integers, Sequences, FiniteSets, TLC

\* The model instantiates bst<bool, int, cmp_op>: keys are the integers
\* 1..MaxKey, values are booleans.
MaxKey == 4

\* nullptr.
NULL == 0

\* value_type{} of operator[].
DefaultVal == FALSE

Key == 1..MaxKey
Val == BOOLEAN
Trees == {"a", "b"}

\* The free store: room for every key of both trees, and for the node that
\* erase builds before it frees the one it replaces.
Addr == 1..(2 * MaxKey + 1)

VARIABLES
    heap,    \* Addr -> node cell: the free store holding every node
    root,    \* Trees -> Addr or NULL: bst::root of each tree object
    alive,   \* the tree objects constructed and not yet destroyed
    cmp,     \* the comparator type cmp_op the trees are instantiated with
    pc,      \* "ready", or "hung" once a call has entered a loop it never leaves
    last,    \* the last call made and what it returned
    rt       \* history of a round trip: keys inserted, keys erased

vars == <<heap, root, alive, cmp, pc, last, rt>>

\* A cell of the free store that holds no node.
FreeCell ==
    [live |-> FALSE, key |-> 0, val |-> FALSE, left |-> NULL, right |-> NULL, parent |-> NULL]

\* A node constructor that drops the parent it is given.
MkNodeNoParent(k, v, p) ==
    [live |-> TRUE, key |-> k, val |-> v, left |-> NULL, right |-> NULL, parent |-> NULL]

\* node(const T& x, node* p): children start absent.
MkNode(k, v, p) ==
    [live |-> TRUE, key |-> k, val |-> v, left |-> NULL, right |-> NULL, parent |-> p]

\* node(const T& x, node* r, node* l, node* p).
MkNode4(k, v, r, l, p) ==
    [live |-> TRUE, key |-> k, val |-> v, left |-> l, right |-> r, parent |-> p]

\* bst::op of a tree whose comparator type is c: std::less<key_type>, or a
\* coarser strict weak ordering under which 2k and 2k+1 are equivalent.
op(c, a, b) == IF c = "less" THEN a < b ELSE (a \div 2) < (b \div 2)

\* operator new: the lowest free cell.
Alloc(h) == CHOOSE a \in Addr : ~h[a].live /\ \A b \in Addr : ~h[b].live => a <= b

\* A destructor that frees the node and not the subtrees it owns.
DestroyNodeOnly(h, a) == IF a = NULL THEN h ELSE [h EXCEPT ![a] = FreeCell]

\* ~node(): destroying a node destroys the subtrees it owns.
RECURSIVE Destroy(_, _)
Destroy(h, a) ==
    IF a = NULL THEN h
    ELSE LET h1 == Destroy(h, h[a].left)
             h2 == Destroy(h1, h[a].right)
         IN  [h2 EXCEPT ![a] = FreeCell]

\* A _find that returns the node where the descent ends instead of nullptr.
RECURSIVE FindLoopNearest(_, _, _, _)
FindLoopNearest(c, h, tmp, x) ==
    IF tmp = NULL THEN NULL
    ELSE IF h[tmp].key = x THEN tmp
    ELSE IF op(c, x, h[tmp].key)
    THEN IF h[tmp].left = NULL THEN tmp ELSE FindLoopNearest(c, h, h[tmp].left, x)
    ELSE IF op(c, h[tmp].key, x)
    THEN IF h[tmp].right = NULL THEN tmp ELSE FindLoopNearest(c, h, h[tmp].right, x)
    ELSE NULL

\* The while loop of _find.
RECURSIVE FindLoop(_, _, _, _)
FindLoop(c, h, tmp, x) ==
    IF tmp = NULL THEN NULL
    ELSE IF h[tmp].key = x THEN tmp
    ELSE IF op(c, x, h[tmp].key) THEN FindLoop(c, h, h[tmp].left, x)
    ELSE IF op(c, h[tmp].key, x) THEN FindLoop(c, h, h[tmp].right, x)
    ELSE NULL

_find(c, h, r, x) == IF r = NULL THEN NULL ELSE FindLoop(c, h, r, x)

\* find(x): the iterator of the node _find returns, the end cursor for nullptr.
find(c, h, r, x) == _find(c, h, r, x)

\* What _insert returns, with the heap and root it leaves behind; hung when
\* the descent loop never exits.
InsertResult(h, r, it, inserted) ==
    [heap |-> h, root |-> r, it |-> it, inserted |-> inserted, hung |-> FALSE]

InsertHung(h, r) ==
    [heap |-> h, root |-> r, it |-> NULL, inserted |-> FALSE, hung |-> TRUE]

\* An _insert loop that returns the iterator of the parent of the new node.
RECURSIVE InsertLoopParentIt(_, _, _, _, _, _)
InsertLoopParentIt(c, h, r, tmp, k, v) ==
    LET goR  == op(c, h[tmp].key, k)
        attR == goR /\ h[tmp].right = NULL
        tmp1 == IF goR /\ ~attR THEN h[tmp].right ELSE tmp
        goL  == op(c, k, h[tmp1].key)
        attL == goL /\ h[tmp1].left = NULL
        tmp2 == IF goL /\ ~attL THEN h[tmp1].left ELSE tmp1
        a    == Alloc(h)
    IN  IF attR
        THEN InsertResult([h EXCEPT ![a] = MkNode(k, v, tmp), ![tmp].right = a], r, tmp, TRUE)
        ELSE IF attL
        THEN InsertResult([h EXCEPT ![a] = MkNode(k, v, tmp1), ![tmp1].left = a], r, tmp1, TRUE)
        ELSE IF tmp2 = tmp THEN InsertHung(h, r)
        ELSE InsertLoopParentIt(c, h, r, tmp2, k, v)

\* One pass of the while loop of _insert: two independent ifs, the second
\* reading tmp as the first left it. A pass that neither attaches nor moves tmp
\* repeats forever.
RECURSIVE InsertLoop(_, _, _, _, _, _)
InsertLoop(c, h, r, tmp, k, v) ==
    LET goR  == op(c, h[tmp].key, k)
        attR == goR /\ h[tmp].right = NULL
        tmp1 == IF goR /\ ~attR THEN h[tmp].right ELSE tmp
        goL  == op(c, k, h[tmp1].key)
        attL == goL /\ h[tmp1].left = NULL
        tmp2 == IF goL /\ ~attL THEN h[tmp1].left ELSE tmp1
        a    == Alloc(h)
    IN  IF attR
        THEN InsertResult([h EXCEPT ![a] = MkNode(k, v, tmp), ![tmp].right = a], r, a, TRUE)
        ELSE IF attL
        THEN InsertResult([h EXCEPT ![a] = MkNode(k, v, tmp1), ![tmp1].left = a], r, a, TRUE)
        ELSE IF tmp2 = tmp THEN InsertHung(h, r)
        ELSE InsertLoop(c, h, r, tmp2, k, v)

\* An _insert that assigns the value when the key is already there.
_insertAssign(c, h, r, k, v) ==
    LET n == _find(c, h, r, k)
        a == Alloc(h)
    IN  IF n # NULL THEN InsertResult([h EXCEPT ![n].val = v], r, n, FALSE)
        ELSE IF r # NULL THEN InsertLoop(c, h, r, r, k, v)
        ELSE InsertResult([h EXCEPT ![a] = MkNode(k, v, NULL)], a, a, TRUE)

_insert(c, h, r, k, v) ==
    LET n == _find(c, h, r, k)
        a == Alloc(h)
    IN  IF n # NULL THEN InsertResult(h, r, n, FALSE)
        ELSE IF r # NULL THEN InsertLoop(c, h, r, r, k, v)
        ELSE InsertResult([h EXCEPT ![a] = MkNode(k, v, NULL)], a, a, TRUE)

\* An _inorder that descends to the right.
RECURSIVE _inorderRightmost(_, _)
_inorderRightmost(h, x) == IF h[x].right # NULL THEN _inorderRightmost(h, h[x].right) ELSE x

\* The leftmost node of the subtree rooted at x.
RECURSIVE _inorder(_, _)
_inorder(h, x) == IF h[x].left # NULL THEN _inorder(h, h[x].left) ELSE x

\* A begin() that stays at the root.
beginAtRoot(h, r) == r

\* begin(): the leftmost node, the end cursor for the empty tree.
begin(h, r) == IF r = NULL THEN NULL ELSE _inorder(h, r)

\* A clear that resets the two child links of the root and keeps the root.
clearChildren(h, r) ==
    IF r = NULL THEN [heap |-> h, root |-> NULL]
    ELSE LET h1 == Destroy(h, h[r].left)
             h2 == Destroy(h1, h[r].right)
         IN  [heap |-> [h2 EXCEPT ![r].left = NULL, ![r].right = NULL], root |-> r]

\* clear(): root.reset().
clear(h, r) == [heap |-> Destroy(h, r), root |-> NULL]

TreeState(h, r) == [heap |-> h, root |-> r]

\* A leaf case that leaves a leaf root in place.
EraseLeafKeepRoot(h, r, n) ==
    IF n # r
    THEN LET p == h[n].parent
         IN  IF n = h[p].left
             THEN TreeState(Destroy([h EXCEPT ![p].left = NULL], n), r)
             ELSE TreeState(Destroy([h EXCEPT ![p].right = NULL], n), r)
    ELSE TreeState(h, r)

\* erase, the leaf case.
EraseLeaf(h, r, n) ==
    IF n # r
    THEN LET p == h[n].parent
         IN  IF n = h[p].left
             THEN TreeState(Destroy([h EXCEPT ![p].left = NULL], n), r)
             ELSE TreeState(Destroy([h EXCEPT ![p].right = NULL], n), r)
    ELSE TreeState(Destroy(h, n), NULL)

\* A fix-up that points only the left child back to the rebuilt node.
FixChildrenLeftOnly(h, a) ==
    IF h[a].left # NULL THEN [h EXCEPT ![h[a].left].parent = a] ELSE h

\* children of the rebuilt node point back to it.
FixChildren(h, a) ==
    LET h1 == IF h[a].left # NULL THEN [h EXCEPT ![h[a].left].parent = a] ELSE h
    IN  IF h1[a].right # NULL THEN [h1 EXCEPT ![h1[a].right].parent = a] ELSE h1

\* A two-children case that gives the rebuilt node the successor's key and
\* the old node's value.
EraseSpliceKeepVal(h, r, n, k, v) ==
    LET a  == Alloc(h)
        h1 == [h EXCEPT ![a] = MkNode4(k, h[n].val, h[n].right, h[n].left, h[n].parent),
                        ![n].right = NULL, ![n].left = NULL]
    IN  IF n = r
        THEN TreeState(FixChildren(Destroy(h1, n), a), a)
        ELSE LET left == (h[h[n].parent].left = n)
                 h2   == FixChildren(h1, a)
                 p    == h2[a].parent
             IN  IF left
                 THEN TreeState(Destroy([h2 EXCEPT ![p].left = a], n), r)
                 ELSE TreeState(Destroy([h2 EXCEPT ![p].right = a], n), r)

\* erase, the two-children case after the successor has been erased: a new
\* node holding the successor's entry takes over n's children and n's slot.
EraseSplice(h, r, n, k, v) ==
    LET a  == Alloc(h)
        h1 == [h EXCEPT ![a] = MkNode4(k, v, h[n].right, h[n].left, h[n].parent),
                        ![n].right = NULL, ![n].left = NULL]
    IN  IF n = r
        THEN TreeState(FixChildren(Destroy(h1, n), a), a)
        ELSE LET left == (h[h[n].parent].left = n)
                 h2   == FixChildren(h1, a)
                 p    == h2[a].parent
             IN  IF left
                 THEN TreeState(Destroy([h2 EXCEPT ![p].left = a], n), r)
                 ELSE TreeState(Destroy([h2 EXCEPT ![p].right = a], n), r)

\* erase, the one-child case: the child is released from n, given n's parent,
\* and put in n's slot, which destroys n.
EraseOneChild(h, r, n) ==
    IF n = r
    THEN IF h[n].right # NULL
         THEN LET c  == h[n].right
                  h1 == [h EXCEPT ![c].parent = NULL, ![n].right = NULL]
              IN  TreeState(Destroy(h1, n), c)
         ELSE LET c  == h[n].left
                  h1 == [h EXCEPT ![c].parent = NULL, ![n].left = NULL]
              IN  TreeState(Destroy(h1, n), c)
    ELSE LET p == h[n].parent
         IN  IF h[p].left = n
             THEN IF h[n].left # NULL
                  THEN LET c  == h[n].left
                           h1 == [h EXCEPT ![c].parent = p, ![n].left = NULL, ![p].left = c]
                       IN  TreeState(Destroy(h1, n), r)
                  ELSE LET c  == h[n].right
                           h1 == [h EXCEPT ![c].parent = p, ![n].right = NULL, ![p].left = c]
                       IN  TreeState(Destroy(h1, n), r)
             ELSE IF h[n].left # NULL
                  THEN LET c  == h[n].left
                           h1 == [h EXCEPT ![c].parent = p, ![n].left = NULL, ![p].right = c]
                       IN  TreeState(Destroy(h1, n), r)
                  ELSE LET c  == h[n].right
                           h1 == [h EXCEPT ![c].parent = p, ![n].right = NULL, ![p].right = c]
                       IN  TreeState(Destroy(h1, n), r)

RECURSIVE erase(_, _, _, _)
erase(c, h, r, x) ==
    LET n == _find(c, h, r, x)
    IN  IF n = NULL THEN TreeState(h, r)
        ELSE IF h[n].left = NULL /\ h[n].right = NULL THEN EraseLeaf(h, r, n)
        ELSE IF h[n].left # NULL /\ h[n].right # NULL
        THEN LET in == _inorder(h, h[n].right)
                 e  == erase(c, h, r, h[in].key)
             IN  EraseSplice(e.heap, e.root, n, h[in].key, h[in].val)
        ELSE EraseOneChild(h, r, n)

\* The iterator's operator++: the leftmost node of the right subtree, else
\* climb while the current node is a right child and move to the parent
\* reached (the end cursor when the climb passes the root).
RECURSIVE Ascend(_, _)
Ascend(h, cur) ==
    LET p == h[cur].parent
    IN  IF p # NULL /\ h[p].right = cur THEN Ascend(h, p) ELSE p

Increment(h, cur) ==
    IF h[cur].right # NULL THEN _inorder(h, h[cur].right) ELSE Ascend(h, cur)

\* for (const auto& i : *this): the nodes visited from it until the end cursor.
\* A walk of more nodes than the free store holds has entered a cycle and is
\* cut there.
RECURSIVE RangeFrom(_, _, _)
RangeFrom(h, it, fuel) ==
    IF it = NULL \/ fuel = 0 THEN <<>>
    ELSE <<it>> \o RangeFrom(h, Increment(h, it), fuel - 1)

RangeFor(h, r) == RangeFrom(h, begin(h, r), Cardinality(Addr) + 1)

\* A _balance that takes end for the index of the last element of the left
\* half.
RECURSIVE _balanceClosed(_, _, _, _, _, _)
_balanceClosed(c, h, r, nodes, start, end) ==
    IF start < end
    THEN LET mid == (start + end) \div 2
             i   == _insert(c, h, r, nodes[mid + 1][1], nodes[mid + 1][2])
         IN  IF i.hung THEN [heap |-> i.heap, root |-> i.root, hung |-> TRUE]
             ELSE LET l == _balanceClosed(c, i.heap, i.root, nodes, start, mid - 1)
                  IN  IF l.hung THEN l
                      ELSE _balanceClosed(c, l.heap, l.root, nodes, mid + 1, end)
    ELSE [heap |-> h, root |-> r, hung |-> FALSE]

\* A _balance that reinserts the first element of the range, not the median.
RECURSIVE _balanceFirst(_, _, _, _, _, _)
_balanceFirst(c, h, r, nodes, start, end) ==
    IF start < end
    THEN LET mid == start
             i   == _insert(c, h, r, nodes[mid + 1][1], nodes[mid + 1][2])
         IN  IF i.hung THEN [heap |-> i.heap, root |-> i.root, hung |-> TRUE]
             ELSE LET l == _balanceFirst(c, i.heap, i.root, nodes, start, mid)
                  IN  IF l.hung THEN l
                      ELSE _balanceFirst(c, l.heap, l.root, nodes, mid + 1, end)
    ELSE [heap |-> h, root |-> r, hung |-> FALSE]

\* _balance(nodes, start, end) over the 0-based half-open range [start, end).
RECURSIVE _balance(_, _, _, _, _, _)
_balance(c, h, r, nodes, start, end) ==
    IF start < end
    THEN LET mid == (start + end) \div 2
             i   == _insert(c, h, r, nodes[mid + 1][1], nodes[mid + 1][2])
         IN  IF i.hung THEN [heap |-> i.heap, root |-> i.root, hung |-> TRUE]
             ELSE LET l == _balance(c, i.heap, i.root, nodes, start, mid)
                  IN  IF l.hung THEN l
                      ELSE _balance(c, l.heap, l.root, nodes, mid + 1, end)
    ELSE [heap |-> h, root |-> r, hung |-> FALSE]

\* balance(): copy the entries out in iteration order, clear, reinsert.
balance(c, h, r) ==
    LET walk  == RangeFor(h, r)
        nodes == [j \in 1..Len(walk) |-> <<h[walk[j]].key, h[walk[j]].val>>]
        e     == clear(h, r)
    IN  _balance(c, e.heap, e.root, nodes, 0, Len(nodes))

\* A node copy constructor that hands its own parent to the copies of its
\* children.
RECURSIVE CopyNodeParentOf(_, _, _)
CopyNodeParentOf(h, x, p) ==
    LET a  == Alloc(h)
        h1 == [h EXCEPT ![a] = MkNode(h[x].key, h[x].val, p)]
        cr == IF h[x].right # NULL THEN CopyNodeParentOf(h1, h[x].right, p)
              ELSE [heap |-> h1, at |-> NULL]
        h2 == [cr.heap EXCEPT ![a].right = cr.at]
        cl == IF h[x].left # NULL THEN CopyNodeParentOf(h2, h[x].left, p)
              ELSE [heap |-> h2, at |-> NULL]
    IN  [heap |-> [cl.heap EXCEPT ![a].left = cl.at], at |-> a]

\* new node{x, p}: a node holding x's entry with parent p, whose right and then
\* left subtree are copies of x's with the new node for parent.
RECURSIVE CopyNode(_, _, _)
CopyNode(h, x, p) ==
    LET a  == Alloc(h)
        h1 == [h EXCEPT ![a] = MkNode(h[x].key, h[x].val, p)]
        cr == IF h[x].right # NULL THEN CopyNode(h1, h[x].right, a)
              ELSE [heap |-> h1, at |-> NULL]
        h2 == [cr.heap EXCEPT ![a].right = cr.at]
        cl == IF h[x].left # NULL THEN CopyNode(h2, h[x].left, a)
              ELSE [heap |-> h2, at |-> NULL]
    IN  [heap |-> [cl.heap EXCEPT ![a].left = cl.at], at |-> a]

\* A copy constructor that takes over the root pointer of x.
CopyTreeShallow(h, xroot) == TreeState(h, xroot)

\* bst(const bst& x): the root of the copy, in the heap that holds it.
CopyTree(h, xroot) ==
    IF xroot # NULL
    THEN LET n == CopyNode(h, xroot, NULL) IN TreeState(n.heap, n.at)
    ELSE TreeState(h, NULL)

\* operator=(const bst& x) on the tree rooted at r, where same says that x is
\* the tree itself: reset the root, copy x as it then is, move the copy in.
CopyAssignTree(h, r, xroot, same) ==
    LET h1  == Destroy(h, r)
        tmp == CopyTree(h1, IF same THEN NULL ELSE xroot)
    IN  TreeState(tmp.heap, tmp.root)

\* The number of nodes on the longest path from a down to a leaf, to depth d.
RECURSIVE HeightTo(_, _, _)
HeightTo(h, a, d) ==
    IF a = NULL \/ d = 0 THEN 0
    ELSE LET l == HeightTo(h, h[a].left, d - 1)
             r == HeightTo(h, h[a].right, d - 1)
         IN  1 + (IF l >= r THEN l ELSE r)

Height(h, a) == HeightTo(h, a, Cardinality(Addr))

\* No node from a down has two children.
RECURSIVE ChainTo(_, _, _)
ChainTo(h, a, d) ==
    \/ a = NULL
    \/ d = 0
    \/ /\ h[a].left = NULL \/ h[a].right = NULL
       /\ ChainTo(h, h[a].left, d - 1)
       /\ ChainTo(h, h[a].right, d - 1)

\* The shape balance() finds: a chain of three nodes or more, or another one.
ShapeOf(h, r) ==
    IF Height(h, r) >= 3 /\ ChainTo(h, r, Cardinality(Addr)) THEN "chain" ELSE "none"

\* The record of a call: its name, object and arguments, the iterator and
\* flag it returned, and what the call found: the branch of erase, the shape
\* balance met, whether an assignment was to the tree itself.
Returned(o, t, k, v, it, inserted) ==
    [op |-> o, tree |-> t, key |-> k, val |-> v, it |-> it, inserted |-> inserted,
     path |-> "none"]

\* bst(): the default constructor has run on tree a and no call was made yet.
Constructed == Returned("bst", "a", 0, FALSE, NULL, FALSE)

\* The branch erase(x) takes in the tree rooted at r.
ErasePath(c, h, r, x) ==
    LET n == _find(c, h, r, x)
    IN  IF n = NULL THEN "absent"
        ELSE IF h[n].left = NULL /\ h[n].right = NULL
        THEN IF n = r THEN "leaf_root" ELSE "leaf"
        ELSE IF h[n].left # NULL /\ h[n].right # NULL
        THEN IF n = r THEN "two_root" ELSE "two"
        ELSE IF n = r THEN "one_root" ELSE "one"

Init ==
    /\ heap = [a \in Addr |-> FreeCell]
    /\ root = [t \in Trees |-> NULL]
    /\ alive = {"a"}
    /\ cmp = "less"
    /\ pc = "ready"
    /\ last = Constructed
    /\ rt = [ins |-> {}, gone |-> {}]

\* A call of _insert on tree t, recorded as a call of o.
InsertCall(o, t, k, v) ==
    /\ pc = "ready"
    /\ t \in alive
    /\ LET i == _insert(cmp, heap, root[t], k, v)
       IN  IF i.hung
           THEN pc' = "hung" /\ UNCHANGED <<heap, root, last>>
           ELSE /\ heap' = i.heap
                /\ root' = [root EXCEPT ![t] = i.root]
                /\ last' = Returned(o, t, k, v, i.it, i.inserted)
                /\ pc' = pc
    /\ UNCHANGED <<alive, cmp>>

\* insert(const pair_type&), insert(pair_type&&) and emplace(args...): each
\* returns what _insert returns for the pair.
Insert(t, k, v) == InsertCall("insert", t, k, v) /\ UNCHANGED rt

\* An operator[] that stores value_type{} in the node it finds.
SubscriptOverwrite(t, k) ==
    /\ pc = "ready"
    /\ t \in alive
    /\ LET i == _insertAssign(cmp, heap, root[t], k, DefaultVal)
       IN  IF i.hung
           THEN pc' = "hung" /\ UNCHANGED <<heap, root, last>>
           ELSE /\ heap' = i.heap
                /\ root' = [root EXCEPT ![t] = i.root]
                /\ last' = Returned("subscript", t, k, DefaultVal, i.it, i.inserted)
                /\ pc' = pc
    /\ UNCHANGED <<alive, cmp, rt>>

\* operator[](x): insert of (x, value_type{}); the reference returned is to
\* the value of the node the iterator names.
Subscript(t, k) == InsertCall("subscript", t, k, DefaultVal) /\ UNCHANGED rt

\* find(x).
Find(t, k) ==
    /\ pc = "ready"
    /\ t \in alive
    /\ last' = Returned("find", t, k, FALSE, find(cmp, heap, root[t], k), FALSE)
    /\ UNCHANGED <<heap, root, alive, cmp, pc, rt>>

EraseCall(t, k) ==
    /\ pc = "ready"
    /\ t \in alive
    /\ LET e == erase(cmp, heap, root[t], k)
       IN  /\ heap' = e.heap
           /\ root' = [root EXCEPT ![t] = e.root]
    /\ last' = [Returned("erase", t, k, FALSE, NULL, FALSE)
                    EXCEPT !.path = ErasePath(cmp, heap, root[t], k)]
    /\ UNCHANGED <<alive, cmp, pc>>

\* erase(x).
Erase(t, k) == EraseCall(t, k) /\ UNCHANGED rt

\* clear().
Clear(t) ==
    /\ pc = "ready"
    /\ t \in alive
    /\ LET c == clear(heap, root[t])
       IN  /\ heap' = c.heap
           /\ root' = [root EXCEPT ![t] = c.root]
    /\ last' = Returned("clear", t, 0, FALSE, NULL, FALSE)
    /\ UNCHANGED <<alive, cmp, pc, rt>>

\* balance().
Balance(t) ==
    /\ pc = "ready"
    /\ t \in alive
    /\ LET b == balance(cmp, heap, root[t])
       IN  IF b.hung
           THEN pc' = "hung" /\ UNCHANGED <<heap, root, last>>
           ELSE /\ heap' = b.heap
                /\ root' = [root EXCEPT ![t] = b.root]
                /\ last' = [Returned("balance", t, 0, FALSE, NULL, FALSE)
                                EXCEPT !.path = ShapeOf(heap, root[t])]
                /\ pc' = pc
    /\ UNCHANGED <<alive, cmp, rt>>

\* The entry a caller offers for a key where the calls run freely: no branch
\* of the container reads a mapped value, so one value per key is offered by
\* insert, and operator[] adds the default one.
EntryOf(k) == <<k, k % 2 = 1>>

Next ==
    \/ \E t \in Trees, k \in Key : Insert(t, k, EntryOf(k)[2])
    \/ \E t \in Trees, k \in Key : Subscript(t, k)
    \/ \E t \in Trees, k \in Key : Erase(t, k)
    \/ \E t \in Trees : Clear(t)
    \/ \E t \in Trees : Balance(t)

\* Any sequence of calls on one tree, from the empty tree.
Spec == Init /\ [][Next]_vars

\* The sequences of entries with pairwise different keys.
BuildSeqs ==
    {s \in UNION {[1..n -> Key \X Val] : n \in 0..MaxKey} :
        \A i, j \in DOMAIN s : i # j => s[i][1] # s[j][1]}

\* The tree that inserting the entries of s in turn builds from the empty tree.
RECURSIVE BuildFrom(_, _, _, _, _)
BuildFrom(c, h, r, s, i) ==
    IF i > Len(s) THEN TreeState(h, r)
    ELSE LET x == _insert(c, h, r, s[i][1], s[i][2])
         IN  BuildFrom(c, x.heap, x.root, s, i + 1)

Build(c, s) == BuildFrom(c, [a \in Addr |-> FreeCell], NULL, s, 1)

\* Tree a is any tree that insertions build; no call is recorded yet.
InitOps ==
    /\ cmp = "less"
    /\ \E s \in BuildSeqs :
         /\ heap = Build("less", s).heap
         /\ root = [t \in Trees |-> IF t = "a" THEN Build("less", s).root ELSE NULL]
    /\ alive = {"a"}
    /\ pc = "ready"
    /\ last = Constructed
    /\ rt = [ins |-> {}, gone |-> {}]

Fresh == last.op = "bst"

OpInsert(k, v) == Fresh /\ Insert("a", k, v)
OpSubscript(k) == Fresh /\ Subscript("a", k)
OpFind(k) == Fresh /\ Find("a", k)
OpErase(k) == Fresh /\ Erase("a", k)
OpClear == Fresh /\ Clear("a")
OpBalance == Fresh /\ Balance("a")

\* An insert made right after clear().
OpInsertAfterClear(k, v) ==
    last.op = "clear" /\ InsertCall("insert_after_clear", "a", k, v) /\ UNCHANGED rt

NextOps ==
    \/ \E k \in Key, v \in Val : OpInsert(k, v)
    \/ \E k \in Key : OpSubscript(k)
    \/ \E k \in Key : OpFind(k)
    \/ \E k \in Key : OpErase(k)
    \/ OpClear
    \/ OpBalance
    \/ \E k \in Key, v \in Val : OpInsertAfterClear(k, v)

\* One call, of any operation, on any tree that insertions build, and an
\* insert after a clear().
SpecOps == InitOps /\ [][NextOps]_vars

\* A round trip: entries with pairwise different keys go in, then keys that
\* went in come out, in any order. rt.ins holds the keys inserted and rt.gone
\* the keys erased since.
RTInsert(k) ==
    /\ rt.gone = {}
    /\ k \notin rt.ins
    /\ InsertCall("insert", "a", k, DefaultVal)
    /\ rt' = [rt EXCEPT !.ins = @ \cup {k}]

RTErase(k) ==
    /\ k \in rt.ins \ rt.gone
    /\ EraseCall("a", k)
    /\ rt' = [rt EXCEPT !.gone = @ \cup {k}]

NextRT ==
    \/ \E k \in Key : RTInsert(k)
    \/ \E k \in Key : RTErase(k)

SpecRT == Init /\ [][NextRT]_vars

\* Trees instantiated with the coarser comparator.
InitCmp ==
    /\ heap = [a \in Addr |-> FreeCell]
    /\ root = [t \in Trees |-> NULL]
    /\ alive = {"a"}
    /\ cmp = "coarse"
    /\ pc = "ready"
    /\ last = Constructed
    /\ rt = [ins |-> {}, gone |-> {}]

NextCmp ==
    \/ \E k \in Key, v \in Val : Insert("a", k, v)
    \/ \E k \in Key : Subscript("a", k)
    \/ \E k \in Key : Find("a", k)
    \/ \E k \in Key : Erase("a", k)
    \/ Clear("a")
    \/ Balance("a")

SpecCmp == InitCmp /\ [][NextCmp]_vars

\* The sequences of pairwise different keys of at most n keys.
KeySeqs(n) ==
    {s \in UNION {[1..m -> Key] : m \in 0..n} :
        \A i, j \in DOMAIN s : i # j => s[i] # s[j]}

EntrySeq(s) == [i \in DOMAIN s |-> EntryOf(s[i])]

\* How many nodes the second tree starts with, at most.
MaxOther == 1

\* Tree a is any tree that insertions build; tree b is not constructed, or is
\* one that at most MaxOther insertions built after a.
InitCopy ==
    /\ cmp = "less"
    /\ \E s \in KeySeqs(MaxKey) :
         LET ta == Build("less", EntrySeq(s))
         IN  \/ /\ heap = ta.heap
                /\ root = [t \in Trees |-> IF t = "a" THEN ta.root ELSE NULL]
                /\ alive = {"a"}
             \/ \E u \in KeySeqs(MaxOther) :
                  LET tb == BuildFrom("less", ta.heap, NULL, EntrySeq(u), 1)
                  IN  /\ heap = tb.heap
                      /\ root = [t \in Trees |-> IF t = "a" THEN ta.root ELSE tb.root]
                      /\ alive = {"a", "b"}
    /\ pc = "ready"
    /\ last = Constructed
    /\ rt = [ins |-> {}, gone |-> {}]

\* bst dst{src}.
CopyConstruct(dst, src) ==
    /\ pc = "ready"
    /\ src \in alive /\ dst \notin alive
    /\ LET n == CopyTree(heap, root[src])
       IN  /\ heap' = n.heap
           /\ root' = [root EXCEPT ![dst] = n.root]
    /\ alive' = alive \cup {dst}
    /\ last' = Returned("copy_ctor", dst, 0, FALSE, NULL, FALSE)
    /\ UNCHANGED <<cmp, pc, rt>>

\* bst dst{std::move(src)}: the root pointer moves.
MoveConstruct(dst, src) ==
    /\ pc = "ready"
    /\ src \in alive /\ dst \notin alive
    /\ root' = [root EXCEPT ![dst] = root[src], ![src] = NULL]
    /\ alive' = alive \cup {dst}
    /\ last' = Returned("move_ctor", dst, 0, FALSE, NULL, FALSE)
    /\ UNCHANGED <<heap, cmp, pc, rt>>

\* dst = src.
CopyAssign(dst, src) ==
    /\ pc = "ready"
    /\ src \in alive /\ dst \in alive
    /\ LET n == CopyAssignTree(heap, root[dst], root[src], dst = src)
       IN  /\ heap' = n.heap
           /\ root' = [root EXCEPT ![dst] = n.root]
    /\ last' = [Returned("copy_assign", dst, 0, FALSE, NULL, FALSE)
                    EXCEPT !.path = IF dst = src THEN "self" ELSE "other"]
    /\ UNCHANGED <<alive, cmp, pc, rt>>

\* A move assignment that swaps the two root pointers.
MoveAssignSwap(dst, src) ==
    /\ pc = "ready"
    /\ src \in alive /\ dst \in alive
    /\ root' = [root EXCEPT ![dst] = root[src], ![src] = root[dst]]
    /\ last' = [Returned("move_assign", dst, 0, FALSE, NULL, FALSE)
                    EXCEPT !.path = IF dst = src THEN "self" ELSE "other"]
    /\ UNCHANGED <<heap, alive, cmp, pc, rt>>

\* dst = std::move(src): root.reset(src.root.release()).
MoveAssign(dst, src) ==
    /\ pc = "ready"
    /\ src \in alive /\ dst \in alive
    /\ LET released == root[src]
           root1    == [root EXCEPT ![src] = NULL]
       IN  /\ heap' = Destroy(heap, root1[dst])
           /\ root' = [root1 EXCEPT ![dst] = released]
    /\ last' = [Returned("move_assign", dst, 0, FALSE, NULL, FALSE)
                    EXCEPT !.path = IF dst = src THEN "self" ELSE "other"]
    /\ UNCHANGED <<alive, cmp, pc, rt>>

\* ~bst() of tree t.
Destruct(t) ==
    /\ pc = "ready"
    /\ t \in alive /\ t # "a"
    /\ heap' = Destroy(heap, root[t])
    /\ root' = [root EXCEPT ![t] = NULL]
    /\ alive' = alive \ {t}
    /\ last' = Returned("dtor", t, 0, FALSE, NULL, FALSE)
    /\ UNCHANGED <<cmp, pc, rt>>

\* No call was made yet, or only the construction of the second tree.
Early == last.op \in {"bst", "copy_ctor", "move_ctor"}

CpCopyConstruct(dst, src) == Fresh /\ CopyConstruct(dst, src)
CpMoveConstruct(dst, src) == Fresh /\ MoveConstruct(dst, src)
CpCopyAssign(dst, src) == Early /\ CopyAssign(dst, src)
CpMoveAssign(dst, src) == Early /\ MoveAssign(dst, src)
CpDestruct(t) == Early /\ Destruct(t)
CpInsert(t, k, v) == Early /\ Insert(t, k, v)
CpSubscript(t, k) == Early /\ Subscript(t, k)
CpErase(t, k) == Early /\ Erase(t, k)
CpClear(t) == Early /\ Clear(t)
CpBalance(t) == Early /\ Balance(t)

NextCopy ==
    \/ \E dst, src \in Trees : CpCopyConstruct(dst, src)
    \/ \E dst, src \in Trees : CpMoveConstruct(dst, src)
    \/ \E dst, src \in Trees : CpCopyAssign(dst, src)
    \/ \E dst, src \in Trees : CpMoveAssign(dst, src)
    \/ \E t \in Trees : CpDestruct(t)
    \/ \E t \in Trees, k \in Key, v \in Val : CpInsert(t, k, v)
    \/ \E t \in Trees, k \in Key : CpSubscript(t, k)
    \/ \E t \in Trees, k \in Key : CpErase(t, k)
    \/ \E t \in Trees : CpClear(t)
    \/ \E t \in Trees : CpBalance(t)

\* Two trees: the second is built, copied or moved from the first, and then
\* one call of any operation is made on either.
SpecCopy == InitCopy /\ [][NextCopy]_vars

\* The second tree has been copy-constructed, and every call since was made on
\* tree t.
Copied(t) == last.op = "copy_ctor" \/ (last.op # "bst" /\ last.tree = t)

IndCopyConstruct(dst, src) == Fresh /\ CopyConstruct(dst, src)
IndInsert(t, k) == last.op = "copy_ctor" /\ Insert(t, k, EntryOf(k)[2])
IndErase(t, k) == Copied(t) /\ Erase(t, k)
IndClear(t) == Copied(t) /\ Clear(t)
IndBalance(t) == Copied(t) /\ last.op # "erase" /\ Balance(t)

\* Tree a is any tree that insertions build; tree b is not constructed.
InitIndep == InitCopy /\ alive = {"a"}

NextIndep ==
    \/ \E dst, src \in Trees : IndCopyConstruct(dst, src)
    \/ \E t \in Trees, k \in Key : IndInsert(t, k)
    \/ \E t \in Trees, k \in Key : IndErase(t, k)
    \/ \E t \in Trees : IndClear(t)
    \/ \E t \in Trees : IndBalance(t)

\* Tree b is copy-constructed from tree a, and then one of the two trees, the
\* copy or its source, takes a sequence of calls: at most one insert, then
\* erase, clear and balance calls in any number, no balance right after an
\* erase.
SpecIndep == InitIndep /\ [][NextIndep]_vars

(***************************************************************************)
(* What the properties observe of a tree.                                  *)
(***************************************************************************)

\* The nodes a tree owns: those its child links reach from a, to depth d.
RECURSIVE NodesTo(_, _, _)
NodesTo(h, a, d) ==
    IF a = NULL \/ d = 0 THEN {}
    ELSE {a} \cup NodesTo(h, h[a].left, d - 1) \cup NodesTo(h, h[a].right, d - 1)

Nodes(h, a) == NodesTo(h, a, Cardinality(Addr))

Entries(h, r) == {<<h[n].key, h[n].val>> : n \in Nodes(h, r)}

KeysOf(h, r) == {h[n].key : n \in Nodes(h, r)}

Size(h, r) == Cardinality(Nodes(h, r))

BSTOrdered(c, h, r) ==
    \A n \in Nodes(h, r) :
        /\ \A m \in Nodes(h, h[n].left) : op(c, h[m].key, h[n].key)
        /\ \A m \in Nodes(h, h[n].right) : op(c, h[n].key, h[m].key)

DistinctKeys(h, r) ==
    \A n, m \in Nodes(h, r) : n # m => h[n].key # h[m].key

\* Two keys neither of which the comparator puts before the other.
Equivalent(c, x, y) == ~op(c, x, y) /\ ~op(c, y, x)

(***************************************************************************)
(* Properties.                                                             *)
(***************************************************************************)

\* C1: in every state reached from the empty tree by insert, emplace,
\* operator[], erase, balance and clear calls, every node's left subtree holds
\* only keys that compare less than the node's key and its right subtree only
\* keys that compare greater, and the keys of the tree are pairwise distinct.
OrderingInvariant ==
    \A t \in alive : BSTOrdered(cmp, heap, root[t]) /\ DistinctKeys(heap, root[t])

\* A two-children erase below the root has left a tree of three nodes.
OrderingWitness ==
    last.op = "erase" /\ last.path = "two" /\ Size(heap, root["a"]) = 3

\* C3: from begin(), repeated increments reach the end cursor after visiting
\* every node of the tree exactly once, in strictly ascending key order.
OrderedIteration ==
    \A t \in alive :
        LET w == RangeFor(heap, root[t])
            N == Nodes(heap, root[t])
        IN  /\ Len(w) = Cardinality(N)
            /\ {w[i] : i \in DOMAIN w} = N
            /\ \A i \in 1..(Len(w) - 1) : op(cmp, heap[w[i]].key, heap[w[i + 1]].key)

\* An insertion has produced a tree whose root has both children and whose
\* walk has at least four nodes.
OrderedIterationWitness ==
    /\ last.op = "insert" /\ last.inserted
    /\ root["a"] # NULL
    /\ heap[root["a"]].left # NULL /\ heap[root["a"]].right # NULL
    /\ Len(RangeFor(heap, root["a"])) >= 4

\* C4: an insert whose key is already in the tree returns the iterator of the
\* node holding that key and false, and changes no node, link or value.
DuplicateRejection ==
    [][(last'.op = "insert" /\ last'.key \in KeysOf(heap, root[last'.tree]))
        => /\ ~last'.inserted
           /\ last'.it \in Nodes(heap, root[last'.tree])
           /\ heap[last'.it].key = last'.key
           /\ heap' = heap
           /\ root' = root]_vars

\* A rejected insert carried a value other than the stored one.
DuplicateWitness ==
    /\ last.op = "insert" /\ ~last.inserted
    /\ last.it # NULL
    /\ heap[last.it].val # last.val

\* C5: when insert(k, v) returns true, its iterator and find(k) name the same
\* node, which holds (k, v); and find(k) returns an entry with the same value
\* after every call other than erase(k) and clear().
FindInsertCoherence ==
    [][/\ (last'.op = "insert" /\ last'.inserted)
            => /\ last'.it # NULL
               /\ find(cmp, heap', root'[last'.tree], last'.key) = last'.it
               /\ heap'[last'.it].key = last'.key
               /\ heap'[last'.it].val = last'.val
       /\ \A k \in Key :
            LET n == find(cmp, heap, root["a"], k)
                m == find(cmp, heap', root'["a"], k)
            IN  (n # NULL /\ ~(last'.op = "erase" /\ last'.key = k) /\ last'.op # "clear")
                => m # NULL /\ heap'[m].key = k /\ heap'[m].val = heap[n].val]_vars

\* A successful insert has attached a node holding TRUE below another node.
FindInsertWitness ==
    /\ last.op = "insert" /\ last.inserted /\ last.val
    /\ last.it # NULL
    /\ heap[last.it].parent # NULL

\* C7: after erase(k) with k in the tree, find(k) is the end iterator and the
\* entries are the previous ones without the entry of k, one node fewer.
EraseCorrectness ==
    [][(last'.op = "erase" /\ last'.key \in KeysOf(heap, root["a"]))
        => LET n == find(cmp, heap, root["a"], last'.key)
           IN  /\ find(cmp, heap', root'["a"], last'.key) = NULL
               /\ Entries(heap', root'["a"])
                    = Entries(heap, root["a"]) \ {<<last'.key, heap[n].val>>}
               /\ Size(heap', root'["a"]) = Size(heap, root["a"]) - 1]_vars

\* A two-children erase below the root has been made.
EraseWitness ==
    last.op = "erase" /\ last.path = "two" /\ root["a"] # NULL

\* C8: erase(k) with k not in the tree, the empty tree included, changes no
\* node, link or value.
EraseAbsentNoOp ==
    [][(last'.op = "erase" /\ last'.key \notin KeysOf(heap, root["a"]))
        => heap' = heap /\ root' = root]_vars

\* erase of a key not in a tree of several nodes.
EraseAbsentWitness ==
    last.op = "erase" /\ last.path = "absent" /\ Size(heap, root["a"]) >= 2

\* C9: once every key inserted has been erased, the root is absent and
\* begin() is the end cursor, as for a tree just constructed.
RoundTrip ==
    (rt.ins # {} /\ rt.gone = rt.ins)
        => /\ root["a"] = NULL
           /\ begin(heap, root["a"]) = NULL
           /\ RangeFor(heap, root["a"]) = <<>>

\* At least three keys went in and all of them came out.
RoundTripWitness ==
    Cardinality(rt.ins) >= 3 /\ rt.gone = rt.ins /\ last.op = "erase"

\* C10: balance() leaves the same set of (key, value) pairs in as many nodes,
\* and the rebuilt tree is ordered.
BalancePreservesContent ==
    [][last'.op = "balance"
        => /\ Entries(heap', root'["a"]) = Entries(heap, root["a"])
           /\ Size(heap', root'["a"]) = Size(heap, root["a"])
           /\ BSTOrdered(cmp, heap', root'["a"])]_vars

\* balance() was called on a tree of at least three nodes, one holding TRUE.
BalanceWitness ==
    /\ last.op = "balance"
    /\ Size(heap, root["a"]) >= 3
    /\ \E n \in Nodes(heap, root["a"]) : heap[n].val

\* C6: find(key) returns a node whose key is equivalent to key under the
\* comparator whenever the tree holds one, and the end iterator only when it
\* holds none.
ComparatorOnlyFind ==
    last.op = "find"
        => /\ (last.it = NULL)
                <=> ~\E n \in Nodes(heap, root["a"]) : Equivalent(cmp, last.key, heap[n].key)
           /\ last.it # NULL => Equivalent(cmp, last.key, heap[last.it].key)

ParentConsistent(h, r) ==
    /\ r # NULL => h[r].parent = NULL
    /\ \A n \in Nodes(h, r) :
        /\ h[n].left # NULL => h[h[n].left].parent = n
        /\ h[n].right # NULL => h[h[n].right].parent = n

\* C2: after every call (insert, erase in its three cases, balance, copy
\* construction, copy and move assignment) each child's parent link points
\* back to the node that owns it, and the root has no parent.
ParentConsistency ==
    \A t \in alive : ParentConsistent(heap, root[t])

\* A tree of at least three nodes was copy-assigned to the other tree.
ParentConsistencyWitness ==
    /\ last.op = "copy_assign" /\ last.path = "other"
    /\ Size(heap, root[last.tree]) >= 3

\* The least e with 2^e >= m.
RECURSIVE CeilLog2(_)
CeilLog2(m) == IF m <= 1 THEN 0 ELSE 1 + CeilLog2((m + 1) \div 2)

\* C11: the tree balance() produces from a tree of n entries of any shape, a
\* chain included, has height ceil(log2(n + 1)) counted in nodes, 0 when empty.
BalanceHeight ==
    [][last'.op = "balance"
        => Height(heap', root'["a"]) = CeilLog2(Size(heap, root["a"]) + 1)]_vars

\* balance() met a chain of four nodes and left a tree of height three.
BalanceHeightWitness ==
    /\ last.op = "balance" /\ last.path = "chain"
    /\ Size(heap, root["a"]) = 4
    /\ Height(heap, root["a"]) = 3

\* The subtrees at x and y have the same shape and, node for node, the same
\* entry.
RECURSIVE SameShapeTo(_, _, _, _)
SameShapeTo(h, x, y, d) ==
    IF x = NULL \/ y = NULL \/ d = 0 THEN x = y
    ELSE /\ h[x].key = h[y].key
         /\ h[x].val = h[y].val
         /\ SameShapeTo(h, h[x].left, h[y].left, d - 1)
         /\ SameShapeTo(h, h[x].right, h[y].right, d - 1)

SameShape(h, x, y) == SameShapeTo(h, x, y, Cardinality(Addr))

Other(t) == IF t = "a" THEN "b" ELSE "a"

\* The step leaves tree t as it was: root, nodes, every field of every node,
\* and the walk from begin().
Untouched(t) ==
    /\ root'[t] = root[t]
    /\ Nodes(heap', root'[t]) = Nodes(heap, root[t])
    /\ \A n \in Nodes(heap, root[t]) : heap'[n] = heap[n]
    /\ RangeFor(heap', root'[t]) = RangeFor(heap, root[t])

\* C12: the tree a copy constructor builds has the shape and entries of its
\* source and shares no node with it, the source is left as it was, and every
\* later insert, operator[], erase, balance or clear on one of the two trees
\* leaves the nodes, links and walk of the other unchanged.
CopyIndependence ==
    [][/\ last'.op = "copy_ctor"
            => /\ SameShape(heap', root'[last'.tree], root'[Other(last'.tree)])
               /\ Untouched(Other(last'.tree))
       /\ (alive' = Trees)
            => Nodes(heap', root'["a"]) \cap Nodes(heap', root'["b"]) = {}
       /\ (last'.op \in {"insert", "subscript", "erase", "balance", "clear"}
                /\ alive' = Trees)
            => Untouched(Other(last'.tree))]_vars

\* The copy of a tree of four nodes has lost two of them, the second to a
\* two-children erase at its root, and the source still has its four.
CopyIndependenceWitness ==
    /\ last.op = "erase" /\ last.tree = "b" /\ last.path = "two_root"
    /\ alive = Trees
    /\ Size(heap, root["a"]) = 4
    /\ Size(heap, root["b"]) = 2

\* C13: after b is move-constructed from a, or a is move-assigned into a
\* distinct tree b, a is empty (begin() is the end cursor) and b owns exactly
\* the nodes a owned, every field of every node as it was.
MoveEmptiesSource ==
    [][(last'.op = "move_ctor" \/ (last'.op = "move_assign" /\ last'.path = "other"))
        => LET dst == last'.tree
               src == Other(last'.tree)
           IN  /\ root'[src] = NULL
               /\ begin(heap', root'[src]) = NULL
               /\ root'[dst] = root[src]
               /\ Nodes(heap', root'[dst]) = Nodes(heap, root[src])
               /\ \A n \in Nodes(heap, root[src]) : heap'[n] = heap[n]]_vars

\* A tree of at least three nodes was move-assigned into the other tree.
MoveWitness ==
    /\ last.op = "move_assign" /\ last.path = "other"
    /\ Size(heap, root[last.tree]) >= 3
    /\ root[Other(last.tree)] = NULL

\* C14: after clear() on any tree begin() is the end cursor and find of every
\* key the tree held returns the end iterator; the insert that follows makes
\* its node the root, with no parent.
ClearEmpties ==
    [][/\ last'.op = "clear"
            => /\ root'["a"] = NULL
               /\ begin(heap', root'["a"]) = NULL
               /\ \A k \in KeysOf(heap, root["a"]) : find(cmp, heap', root'["a"], k) = NULL
       /\ last'.op = "insert_after_clear"
            => /\ last'.inserted
               /\ last'.it # NULL
               /\ root'["a"] = last'.it
               /\ heap'[last'.it] = MkNode(last'.key, last'.val, NULL)]_vars

\* An insert was made after clear() and its node is the root.
ClearWitness ==
    /\ last.op = "insert_after_clear"
    /\ root["a"] = last.it /\ last.it # NULL
    /\ heap[last.it].key = last.key

\* C15: operator[] with a key not in the tree adds exactly one entry, the key
\* with the default value, and returns a reference to the value of the new
\* node; with a key in the tree it changes nothing, the stored value included,
\* and returns a reference to the value of the node that holds the key.
SubscriptInsertOrGet ==
    [][last'.op = "subscript"
        => LET k == last'.key
               n == find(cmp, heap, root["a"], k)
           IN  /\ last'.it \in Nodes(heap', root'["a"])
               /\ heap'[last'.it].key = k
               /\ IF k \in KeysOf(heap, root["a"])
                  THEN /\ heap' = heap /\ root' = root
                       /\ last'.it = n
                       /\ heap'[last'.it].val = heap[n].val
                  ELSE /\ Entries(heap', root'["a"])
                            = Entries(heap, root["a"]) \cup {<<k, DefaultVal>>}
                       /\ Size(heap', root'["a"]) = Size(heap, root["a"]) + 1
                       /\ last'.it \notin Nodes(heap, root["a"])
                       /\ heap'[last'.it].val = DefaultVal]_vars

\* operator[] found its key in a node whose value is not the default one.
SubscriptWitness ==
    /\ last.op = "subscript" /\ ~last.inserted
    /\ last.it # NULL
    /\ heap[last.it].val # DefaultVal

\* The child slot where the descent for key k from node n ends: the node that
\* owns the first absent slot on the side the comparator picks, and the side.
RECURSIVE SlotTo(_, _, _, _, _)
SlotTo(c, h, n, k, d) ==
    IF d = 0 THEN <<NULL, "none">>
    ELSE IF op(c, k, h[n].key)
    THEN IF h[n].left = NULL THEN <<n, "left">> ELSE SlotTo(c, h, h[n].left, k, d - 1)
    ELSE IF op(c, h[n].key, k)
    THEN IF h[n].right = NULL THEN <<n, "right">> ELSE SlotTo(c, h, h[n].right, k, d - 1)
    ELSE <<NULL, "none">>

Slot(c, h, r, k) == SlotTo(c, h, r, k, Cardinality(Addr))

\* C16: an insert that returns true creates exactly one node, with no children,
\* in the first absent child slot the descent from the root reaches, its parent
\* the node that owns the slot; every node that was there keeps its identity,
\* entry, parent link and other child links, and the root stays the root.
InsertLeafAttachment ==
    [][(last'.op = "insert" /\ last'.inserted)
        => LET it == last'.it
               r  == root["a"]
           IN  /\ it \in Addr /\ ~heap[it].live
               /\ Nodes(heap', root'["a"]) = Nodes(heap, r) \cup {it}
               /\ \A a \in Addr \ {it} : heap'[a].live = heap[a].live
               /\ IF r = NULL
                  THEN /\ root'["a"] = it
                       /\ heap'[it] = MkNode4(last'.key, last'.val, NULL, NULL, NULL)
                  ELSE LET s == Slot(cmp, heap, r, last'.key)
                           p == s[1]
                       IN  /\ root'["a"] = r
                           /\ p # NULL
                           /\ heap'[it] = MkNode4(last'.key, last'.val, NULL, NULL, p)
                           /\ heap'[p] = IF s[2] = "left"
                                         THEN [heap[p] EXCEPT !.left = it]
                                         ELSE [heap[p] EXCEPT !.right = it]
                           /\ \A n \in Nodes(heap, r) \ {p} : heap'[n] = heap[n]]_vars

\* An insert has attached its node two levels or more below the root.
InsertLeafWitness ==
    /\ last.op = "insert" /\ last.inserted
    /\ last.it # NULL
    /\ heap[last.it].parent # NULL
    /\ heap[heap[last.it].parent].parent # NULL

\* The node in the slot that node n had before the step: the root, or the
\* child of n's parent on n's side.
InSlotOf(n) ==
    IF n = root["a"] THEN root'["a"]
    ELSE IF heap[heap[n].parent].left = n THEN heap'[heap[n].parent].left
    ELSE heap'[heap[n].parent].right

\* What a node x of n's subtrees looks like once the successor s has been cut
\* out and node m has taken n's place: the children of n point back to m, the
\* right child of s takes the slot and parent s had.
SplicedCell(x, n, s, m) ==
    LET up == IF heap[s].parent = n THEN m ELSE heap[s].parent
        c1 == IF heap[x].parent = n THEN [heap[x] EXCEPT !.parent = m] ELSE heap[x]
        c2 == IF x = heap[s].right THEN [c1 EXCEPT !.parent = up] ELSE c1
    IN  IF x = heap[s].parent THEN [c2 EXCEPT !.left = heap[s].right] ELSE c2

\* C17: when erase(k) finds k in a node n with two children, the node in n's
\* slot afterwards holds the entry of s, the leftmost node of n's right
\* subtree, has n's parent, n's left subtree unchanged and n's right subtree
\* with only s cut out; s has no left child, so its own erase is the leaf or
\* the one-child case.
EraseSplicesSuccessor ==
    [][(last'.op = "erase" /\ last'.path \in {"two", "two_root"})
        => LET n == find(cmp, heap, root["a"], last'.key)
               s == _inorder(heap, heap[n].right)
               m == InSlotOf(n)
           IN  /\ ErasePath(cmp, heap, root["a"], heap[s].key) \in {"leaf", "one"}
               /\ m # NULL
               /\ heap'[m].key = heap[s].key /\ heap'[m].val = heap[s].val
               /\ heap'[m].parent = heap[n].parent
               /\ heap'[m].left = heap[n].left
               /\ heap'[m].right = IF heap[n].right = s THEN heap[s].right ELSE heap[n].right
               /\ Nodes(heap', heap'[m].left) = Nodes(heap, heap[n].left)
               /\ Nodes(heap', heap'[m].right) = Nodes(heap, heap[n].right) \ {s}
               /\ \A x \in (Nodes(heap, heap[n].left) \cup Nodes(heap, heap[n].right)) \ {s} :
                    heap'[x] = SplicedCell(x, n, s, m)]_vars

\* A two-children erase at the root has left a root with two children.
EraseSpliceWitness ==
    /\ last.op = "erase" /\ last.path = "two_root"
    /\ Size(heap, root["a"]) = 3
    /\ heap[root["a"]].left # NULL /\ heap[root["a"]].right # NULL

\* C18: under every strict weak ordering, one with unequal equivalent keys
\* included, each insert, emplace and operator[] call returns its (iterator,
\* bool) result: no call stays in the descent loop without advancing.
InsertTerminates == pc # "hung"

\* C19: after b = a, tree b holds exactly the entries a held before and a is
\* as it was, for every pair of trees, a and b the same tree included.
CopyAssignYieldsSource ==
    [][last'.op = "copy_assign"
        => LET dst == last'.tree
               src == IF last'.path = "self" THEN last'.tree ELSE Other(last'.tree)
           IN  /\ Entries(heap', root'[dst]) = Entries(heap, root[src])
               /\ Entries(heap', root'[src]) = Entries(heap, root[src])
               /\ src # dst => Untouched(src)]_vars

\* The owning links that hold node n: root pointers of trees and left and
\* right links of nodes not yet destroyed.
OwnersOf(n) ==
    Cardinality({t \in Trees : root[t] = n})
    + Cardinality({a \in Addr : heap[a].live /\ heap[a].left = n})
    + Cardinality({a \in Addr : heap[a].live /\ heap[a].right = n})

\* C20: after any sequence of insert, erase, balance and clear calls every
\* node allocated and not destroyed is reachable from the root and held by
\* exactly one owning link, and no owning link of the root or of a live node
\* refers to a destroyed node.
ExclusiveOwnership ==
    /\ {a \in Addr : heap[a].live} = UNION {Nodes(heap, root[t]) : t \in alive}
    /\ \A a \in Addr : heap[a].live => OwnersOf(a) = 1
    /\ \A t \in Trees : root[t] # NULL => heap[root[t]].live
    /\ \A a \in Addr :
         heap[a].live =>
            /\ heap[a].left # NULL => heap[heap[a].left].live
            /\ heap[a].right # NULL => heap[heap[a].right].live

\* A two-children erase at the root has left two nodes in the free store.
OwnershipWitness ==
    /\ last.op = "erase" /\ last.path = "two_root"
    /\ Cardinality({a \in Addr : heap[a].live}) = 2

====
